---- MODULE Spec2Model ----
(***************************************************************************)
(* A model of moviechatAI: recommend_ai (src/core/recommender.py), the     *)
(* provider wrappers it calls (src/core/providers.py), the semantic        *)
(* oracle (src/core/gemini_intent.py) and the lexical extractor            *)
(* (src/core/ai_intent.py).                                                *)
(*                                                                         *)
(* Python values are encoded as follows.  None and the other falsy values  *)
(* of a field share one encoding whenever the code only ever tests the     *)
(* field for truthiness: 0 for a missing integer, "" for a missing string, *)
(* << >> for a missing list.  A trailer URL keeps the explicit marker      *)
(* None.  A text is the sequence of its whitespace-separated words.        *)
(***************************************************************************)
EXTENDS Integers, Sequences, FiniteSets, TLC

VARIABLES
    tmdb_key,        \* os.getenv("TMDB_API_KEY") is set
    watchmode_key,   \* os.getenv("WATCHMODE_API_KEY") is set
    gemini_key,      \* os.getenv("GEMINI_API_KEY") is set
    idCache,         \* _WATCHMODE_ID_CACHE: title -> watchmode id (0 = None)
    sourcesCache,    \* _WATCHMODE_SOURCES_CACHE: <<title, region>> -> body
    trailerCache,    \* _TRAILER_CACHE: <<tmdb id, media type>> -> url or None
    pc,              \* position of the running request inside recommend_ai
    req,             \* the arguments of the running call of recommend_ai
    intent,          \* the locals of recommend_ai set by the intent merge
    candidates,      \* the local "candidates"
    media_type,      \* the local "media_type"
    items,           \* the local "items"
    trailer_calls,   \* the local "trailer_calls"
    avail_calls,     \* the local "avail_calls"
    cursor,          \* index of the candidate the item loop is at
    calls,           \* log of the collaborator calls and sleeps of this request
    outcome,         \* how the last call of recommend_ai ended
    requests,        \* number of calls of recommend_ai started so far
    faults,          \* number of upstream failures injected so far
    raw,             \* the list _dedupe_by_id was last called with
    lookups,         \* per cache key, the external enrichment calls made so
                     \* far in this process
    threads          \* the request threads that run an enrichment lookup
                     \* concurrently, each with its position and locals

vars == <<tmdb_key, watchmode_key, gemini_key, idCache, sourcesCache,
          trailerCache, pc, req, intent, candidates, media_type, items,
          trailer_calls, avail_calls, cursor, calls, outcome, requests, faults,
          raw, lookups, threads>>

envVars == <<tmdb_key, watchmode_key, gemini_key>>
cacheVars == <<idCache, sourcesCache, trailerCache>>
loopVars == <<items, trailer_calls, avail_calls, cursor>>

----------------------------------------------------------------------------
(* Bounds of the model *)

MaxRequests == 2   \* calls of recommend_ai in one process lifetime
MaxFaults == 1     \* upstream failures injected in one process lifetime
MaxLookups == 2    \* enrichment lookups one concurrent thread runs
MaxCandidates == 3 \* length of the candidate lists given to _dedupe_by_id

(* Program constants *)

AVAILABILITY_LOOKUPS_PER_REQUEST == 5
TRAILER_LOOKUPS_PER_REQUEST == 4
MaxSourceNames == 6
DEFAULT_REGION == "US"
None == "None"

----------------------------------------------------------------------------
(* Sequence helpers *)

Last(s) == s[Len(s)]

Take(s, n) == SubSeq(s, 1, IF n < Len(s) THEN n ELSE Len(s))

Range(s) == {s[i] : i \in 1..Len(s)}

Min(a, b) == IF a < b THEN a ELSE b

Max(a, b) == IF a > b THEN a ELSE b

----------------------------------------------------------------------------
(* ai_intent.py: the lexical extractor.  A text is a sequence of lower-case *)
(* words; "k in t" (substring) and the regular expressions are evaluated    *)
(* word by word through the tables below, which list for every word of the  *)
(* vocabulary the cue strings it contains.                                  *)

TMDB_GENRES ==
    << <<"action", 28>>, <<"adventure", 12>>, <<"animation", 16>>,
       <<"anime", 16>>, <<"comedy", 35>>, <<"crime", 80>>,
       <<"documentary", 99>>, <<"drama", 18>>, <<"family", 10751>>,
       <<"fantasy", 14>>, <<"history", 36>>, <<"horror", 27>>,
       <<"music", 10402>>, <<"mystery", 9648>>, <<"romance", 10749>>,
       <<"sci fi", 878>>, <<"sci-fi", 878>>, <<"thriller", 53>>,
       <<"war", 10752>> >>

LANG_HINTS ==
    << <<{"hindi", "bollywood", "india", "indian"}, "hi">>,
       <<{"english", "hollywood"}, "en">>,
       <<{"korean", "k-drama", "kdrama"}, "ko">>,
       <<{"japanese", "jp", "anime"}, "ja">>,
       <<{"spanish"}, "es">>, <<{"french"}, "fr">>,
       <<{"tamil"}, "ta">>, <<{"telugu"}, "te">> >>

CONTENT_HINTS ==
    << <<"movie", {"movie", "movies", "film", "films"}>>,
       <<"series", {"series", "tv", "show", "shows", "web series",
                    "episode", "episodes"}>> >>

\* The cue strings a word contains as a substring (other than itself).
SubstringsOf(w) ==
    CASE w = "movies"    -> {"movie"}
      [] w = "films"     -> {"film"}
      [] w = "shows"     -> {"show"}
      [] w = "episodes"  -> {"episode"}
      [] w = "indian"    -> {"india"}
      [] w = "thriller"  -> {"thrill"}
      [] w = "thrilling" -> {"thrill"}
      [] w = "unlike"    -> {"like"}
      [] OTHER           -> {}

\* "k in t" for a cue k without a space.
Contains(t, k) == \E i \in 1..Len(t) : t[i] = k \/ k \in SubstringsOf(t[i])

\* re.search(r"\bname\b", t) for a genre name (one word, or two for "sci fi").
WholeWord(t, name) ==
    IF name = "sci fi"
    THEN \E i \in 1..(Len(t) - 1) : t[i] = "sci" /\ t[i + 1] = "fi"
    ELSE \E i \in 1..Len(t) : t[i] = name

YearValue(w) ==
    CASE w = "1999" -> 1999
      [] w = "2015" -> 2015
      [] w = "2019" -> 2019
      [] w = "2020" -> 2020
      [] OTHER      -> 0

IsYear(w) == YearValue(w) # 0

\* The least index satisfying P, or 0.
FirstIndex(S) == IF S = {} THEN 0 ELSE CHOOSE i \in S : \A j \in S : i <= j

\* an extractor that tries "before / until" ahead of "after / since"
_extract_years_until_first(t) ==
    LET years == SelectSeq(t, IsYear)
        bi == FirstIndex({i \in 1..(Len(t) - 3) :
                  /\ t[i] = "between" /\ IsYear(t[i + 1])
                  /\ t[i + 2] \in {"and", "to"} /\ IsYear(t[i + 3])})
        ai == FirstIndex({i \in 1..(Len(t) - 1) :
                  t[i] \in {"after", "since"} /\ IsYear(t[i + 1])})
        ui == FirstIndex({i \in 1..(Len(t) - 1) :
                  t[i] \in {"before", "until"} /\ IsYear(t[i + 1])})
    IN  IF bi # 0
        THEN <<Min(YearValue(t[bi + 1]), YearValue(t[bi + 3])),
               Max(YearValue(t[bi + 1]), YearValue(t[bi + 3]))>>
        ELSE IF ui # 0
        THEN <<0, IF t[ui] = "before" THEN YearValue(t[ui + 1]) - 1
                  ELSE YearValue(t[ui + 1])>>
        ELSE IF ai # 0
        THEN <<IF t[ai] = "after" THEN YearValue(t[ai + 1]) + 1
               ELSE YearValue(t[ai + 1]), 0>>
        ELSE IF Len(years) = 1
        THEN <<YearValue(years[1]), YearValue(years[1])>>
        ELSE <<0, 0>>

_extract_years(t) ==
    LET years == SelectSeq(t, IsYear)
        bi == FirstIndex({i \in 1..(Len(t) - 3) :
                  /\ t[i] = "between" /\ IsYear(t[i + 1])
                  /\ t[i + 2] \in {"and", "to"} /\ IsYear(t[i + 3])})
        ai == FirstIndex({i \in 1..(Len(t) - 1) :
                  t[i] \in {"after", "since"} /\ IsYear(t[i + 1])})
        ui == FirstIndex({i \in 1..(Len(t) - 1) :
                  t[i] \in {"before", "until"} /\ IsYear(t[i + 1])})
    IN  IF bi # 0
        THEN <<Min(YearValue(t[bi + 1]), YearValue(t[bi + 3])),
               Max(YearValue(t[bi + 1]), YearValue(t[bi + 3]))>>
        ELSE IF ai # 0
        THEN <<IF t[ai] = "after" THEN YearValue(t[ai + 1]) + 1
               ELSE YearValue(t[ai + 1]), 0>>
        ELSE IF ui # 0
        THEN <<0, IF t[ui] = "before" THEN YearValue(t[ui + 1]) - 1
                  ELSE YearValue(t[ui + 1])>>
        ELSE IF Len(years) = 1
        THEN <<YearValue(years[1]), YearValue(years[1])>>
        ELSE <<0, 0>>

RECURSIVE DedupeKeepFirst(_)
\* list(dict.fromkeys(xs))
DedupeKeepFirst(xs) ==
    IF xs = << >> THEN << >>
    ELSE LET init == DedupeKeepFirst(SubSeq(xs, 1, Len(xs) - 1))
         IN  IF Last(xs) \in Range(init) THEN init ELSE Append(init, Last(xs))

RECURSIVE LexicalGenres(_, _)
\* the loop over TMDB_GENRES.items(), in the order of the table
LexicalGenres(t, n) ==
    IF n = 0 THEN << >>
    ELSE LET prev == LexicalGenres(t, n - 1)
         IN  IF WholeWord(t, TMDB_GENRES[n][1])
             THEN Append(prev, TMDB_GENRES[n][2]) ELSE prev

\* the words after the first "like" / "similar to", cut at the first
\* whole word "on" or "from"
SeedTitle(t) ==
    LET li == FirstIndex({i \in 1..(Len(t) - 1) :
                  \/ t[i] = "like" \/ "like" \in SubstringsOf(t[i])
                  \/ (i > 1 /\ t[i - 1] = "similar" /\ t[i] = "to")})
        rest == IF li = 0 THEN << >> ELSE SubSeq(t, li + 1, Len(t))
        cut == FirstIndex({i \in 1..Len(rest) : rest[i] \in {"on", "from"}})
    IN  IF cut = 0 THEN rest ELSE SubSeq(rest, 1, cut - 1)

parse_intent(t) ==
    LET cti == FirstIndex({i \in 1..Len(CONTENT_HINTS) :
                   \E k \in CONTENT_HINTS[i][2] : Contains(t, k)})
        lgi == FirstIndex({i \in 1..Len(LANG_HINTS) :
                   \E k \in LANG_HINTS[i][1] : Contains(t, k)})
        g0 == LexicalGenres(t, Len(TMDB_GENRES))
        g1 == IF Contains(t, "thrill") /\ 53 \notin Range(g0)
              THEN Append(g0, 53) ELSE g0
        yrs == _extract_years(t)
    IN  [content_type |-> IF cti = 0 THEN "" ELSE CONTENT_HINTS[cti][1],
         language |-> IF lgi = 0 THEN "" ELSE LANG_HINTS[lgi][2],
         genres |-> DedupeKeepFirst(g1),
         seed_title |-> SeedTitle(t),
         year_from |-> yrs[1],
         year_to |-> yrs[2]]

\* recommender.py
_looks_like_person_query(t) ==
    /\ \E i \in 2..Len(t) : t[i] \in {"movies", "films", "film"}
    /\ \/ Contains(t, "actor") \/ Contains(t, "director")
       \/ Contains(t, "starring")
       \/ \E i \in 1..(Len(t) - 1) : t[i] = "by"
       \/ Len(t) <= 4

_normalize_content_type(ct) ==
    IF ct \in {"movie", "movies"} THEN "movie"
    ELSE IF ct \in {"series", "tv", "show", "shows"} THEN "series"
    ELSE IF ct = "" THEN "movie" ELSE ct

GenreId(w) ==
    LET i == FirstIndex({j \in 1..Len(TMDB_GENRES) : TMDB_GENRES[j][1] = w})
    IN  IF i = 0 THEN 0 ELSE TMDB_GENRES[i][2]

RECURSIVE HintGenres(_)
\* the loop translating the oracle's genre words through GMAP
HintGenres(ws) ==
    IF ws = << >> THEN << >>
    ELSE LET prev == HintGenres(SubSeq(ws, 1, Len(ws) - 1))
         IN  IF GenreId(Last(ws)) # 0
             THEN Append(prev, GenreId(Last(ws))) ELSE prev

Or(a, b, empty) == IF a # empty THEN a ELSE b

\* a merge that adds the lexical ids to the oracle's
MergeIntentUnion(r, g) ==
    LET h == parse_intent(r.user_text)
        ct_raw == Or(r.content_type, Or(g.content_type,
                     Or(h.content_type, "unknown", ""), ""), "")
        hg == HintGenres(g.genres)
    IN  [ct |-> _normalize_content_type(
                    IF ct_raw # "unknown" THEN ct_raw ELSE "movie"),
         lang |-> Or(r.language, Or(g.language, h.language, ""), ""),
         year_from |-> Or(g.year_from, h.year_from, 0),
         year_to |-> Or(g.year_to, h.year_to, 0),
         genre_ids |-> DedupeKeepFirst(hg \o h.genres),
         title_query |-> Or(g.title_query, h.seed_title, << >>),
         person_name |-> g.person_name,
         person_role |-> g.person_role,
         keyword_terms |-> g.keywords,
         phase3_gemini_enabled |-> g.present,
         g |-> g]

\* The locals recommend_ai derives from its arguments, the oracle's hint g
\* (all fields falsy when there is no hint) and the lexical result h; g
\* itself stays among them.
MergeIntent(r, g) ==
    LET h == parse_intent(r.user_text)
        ct_raw == Or(r.content_type, Or(g.content_type,
                     Or(h.content_type, "unknown", ""), ""), "")
        hg == HintGenres(g.genres)
    IN  [ct |-> _normalize_content_type(
                    IF ct_raw # "unknown" THEN ct_raw ELSE "movie"),
         lang |-> Or(r.language, Or(g.language, h.language, ""), ""),
         year_from |-> Or(g.year_from, h.year_from, 0),
         year_to |-> Or(g.year_to, h.year_to, 0),
         genre_ids |-> DedupeKeepFirst(IF hg = << >> THEN h.genres ELSE hg),
         title_query |-> Or(g.title_query, h.seed_title, << >>),
         person_name |-> g.person_name,
         person_role |-> g.person_role,
         keyword_terms |-> g.keywords,
         phase3_gemini_enabled |-> g.present,
         g |-> g]


----------------------------------------------------------------------------
(* The upstream services.  What a catalog endpoint answers is a choice of   *)
(* the environment among the fixture lists below; a trailer or availability *)
(* lookup of one key always resolves to the same value (WorldTrailer,       *)
(* WorldWatchmodeId, WorldSources) unless the call fails.                   *)

Cand(id, title, name, mt, job, va, pop, lang, genres) ==
    [id |-> id, title |-> title, name |-> name, media_type |-> mt,
     job |-> job, vote_average |-> va, popularity |-> pop,
     original_language |-> lang, genre_ids |-> genres]

\* A movie result list: a repeated id (2), a missing id (0), an entry
\* without a title (3), two entries sharing one title (1 and 4).
MovieResults ==
    << Cand(1, "A", "", "movie", "", 6, 40, "en", {28}),
       Cand(2, "B", "", "movie", "", 8, 100, "hi", {35}),
       Cand(2, "B2", "", "movie", "", 9, 300, "hi", {35}),
       Cand(0, "Z", "", "movie", "", 9, 300, "en", {28}),
       Cand(3, "", "", "movie", "", 7, 50, "en", {28}),
       Cand(4, "A", "", "movie", "", 6, 40, "en", {28, 35}),
       Cand(5, "C", "", "movie", "", 7, 250, "hi", {35, 80}),
       Cand(6, "D", "", "movie", "", 10, 200, "en", {53}),
       Cand(7, "E", "", "movie", "", 5, 0, "ko", {}),
       Cand(8, "F", "", "movie", "", 6, 40, "en", {28}) >>

TvResults ==
    << Cand(1, "", "S", "tv", "", 8, 120, "hi", {35}),
       Cand(2, "", "T", "tv", "", 7, 20, "en", {80}) >>

PersonHit == Cand(500, "", "tom cruise", "person", "", 0, 30, "", {})

\* answers of /search/multi
MultiResults ==
    { << >>,
      <<PersonHit>>,
      <<PersonHit, MovieResults[1]>>,
      <<TvResults[1], MovieResults[2]>> }

\* answers of /search/person
PersonResults == { << >>, <<PersonHit>> }

\* answer of /person/{id}/combined_credits
CreditsCast ==
    << Cand(5, "C", "", "movie", "", 7, 250, "hi", {35, 80}),
       Cand(1, "A", "", "movie", "", 6, 40, "en", {28}),
       Cand(2, "", "T", "tv", "", 7, 20, "en", {80}) >>

CreditsCrew ==
    << Cand(6, "D", "", "movie", "Director", 10, 200, "en", {53}),
       Cand(8, "F", "", "movie", "Screenplay", 6, 40, "en", {28}),
       Cand(7, "E", "", "movie", "Producer", 5, 0, "ko", {}) >>

CreditsAnswers ==
    { [cast |-> CreditsCast, crew |-> CreditsCrew],
      [cast |-> << >>, crew |-> << >>] }

\* answers of /search/keyword
KeywordResults == { << >>, <<[id |-> 9]>> }

\* answers of /discover/movie and /discover/tv
ListAnswers(mt) ==
    IF mt = "movie" THEN { << >>, MovieResults } ELSE { << >>, TvResults }

\* answers of /search/movie and /search/tv
SearchAnswers(mt) ==
    IF mt = "movie" THEN { << >>, SubSeq(MovieResults, 2, 5) }
    ELSE { << >>, TvResults }

MovieUrls ==
    <<"yt:m1", "yt:m2", "yt:m3", "yt:m4", "yt:m5", "yt:m6", "yt:m7", "yt:m8">>

\* what tmdb_get_trailer_url resolves to: a YouTube URL, or None when the
\* title has no YouTube video
WorldTrailer(id, mt) ==
    IF id % 3 = 2 THEN None
    ELSE IF mt = "movie" /\ id \in 1..Len(MovieUrls) THEN MovieUrls[id]
    ELSE "yt:tv"

\* results[0].get("id") of the availability title search; 0: no result
WorldWatchmodeId(title) ==
    CASE title = "A" -> 101
      [] title = "B" -> 102
      [] title = "C" -> 0
      [] title = "D" -> 104
      [] title = "S" -> 105
      [] OTHER       -> 106

\* s.get("name") or s.get("source") of each entry of the sources answer
WorldSources(wm_id) ==
    CASE wm_id = 101 -> <<"Netflix", "Prime", "Netflix">>
      [] wm_id = 102 -> << >>
      [] wm_id = 104 -> <<"a", "b", "", "c", "d", "e", "f", "g">>
      [] OTHER       -> <<"Hulu">>

\* A sources body: the JSON list of entries, or JSON of another shape.
ListBody(names) == [shape |-> "list", names |-> names]

MalformedBody == [shape |-> "other", names |-> <<"statusMessage">>]


----------------------------------------------------------------------------
(* recommender.py: the pure helpers *)

RECURSIVE _dedupe_keep_last(_)
\* a deduplication in which the last occurrence of an identifier wins
_dedupe_keep_last(xs) ==
    IF xs = << >> THEN << >>
    ELSE LET rest == _dedupe_keep_last(SubSeq(xs, 2, Len(xs)))
             x == xs[1]
         IN  IF x.id = 0 \/ x.id \in {y.id : y \in Range(rest)}
             THEN rest ELSE <<x>> \o rest

RECURSIVE _dedupe_by_id(_)
_dedupe_by_id(xs) ==
    IF xs = << >> THEN << >>
    ELSE LET init == _dedupe_by_id(SubSeq(xs, 1, Len(xs) - 1))
             x == Last(xs)
         IN  IF x.id = 0 \/ x.id \in {y.id : y \in Range(init)}
             THEN init ELSE Append(init, x)

\* round(n / d) for n >= 0, d > 0: halves go to the even neighbour
RoundHalfEven(n, d) ==
    LET q == n \div d
        r == n % d
    IN  IF 2 * r > d \/ (2 * r = d /\ q % 2 = 1) THEN q + 1 ELSE q

\* a score without the cap "min(base + similar_bonus, 1.0)"
_score_100_uncapped(item, intent_genres, intent_lang, similar_bonus) ==
    LET target == Range(intent_genres)
        n == IF target = {} THEN 20 ELSE Cardinality(target)
        k == IF target = {} THEN 7
             ELSE Cardinality(item.genre_ids \cap target)
        lang_match == IF intent_lang # "" /\ item.original_language = intent_lang
                      THEN 1 ELSE 0
        num == 50 * n * item.vote_average + 250 * k
               + n * Min(item.popularity, 200) + 50 * n * lang_match
               + 10 * n * similar_bonus
    IN  RoundHalfEven(num, 10 * n)

\* similar_bonus is given in hundredths (6 for 0.06).  The weighted sum is
\* computed exactly, over the common denominator 10 * |target genres|
\* (200 for the neutral overlap 0.35 = 7/20).
_score_100(item, intent_genres, intent_lang, similar_bonus) ==
    LET target == Range(intent_genres)
        n == IF target = {} THEN 20 ELSE Cardinality(target)
        k == IF target = {} THEN 7
             ELSE Cardinality(item.genre_ids \cap target)
        lang_match == IF intent_lang # "" /\ item.original_language = intent_lang
                      THEN 1 ELSE 0
        num == 50 * n * item.vote_average + 250 * k
               + n * Min(item.popularity, 200) + 50 * n * lang_match
               + 10 * n * similar_bonus
    IN  RoundHalfEven(Min(num, 1000 * n), 10 * n)

\* a descending sort that reverses the order of elements with equal keys
ReversingSortDesc(xs, keys) ==
    LET Pos(i) == 1 + Cardinality({j \in 1..Len(xs) :
                          \/ keys[j] > keys[i]
                          \/ (keys[j] = keys[i] /\ j > i)})
    IN  [p \in 1..Len(xs) |-> xs[CHOOSE i \in 1..Len(xs) : Pos(i) = p]]

\* list.sort(key=..., reverse=True), keys[i] being the key of xs[i]: equal
\* keys keep their order.  The element at index i moves behind every element
\* with a greater key and every earlier element with an equal key.
StableSortDesc(xs, keys) ==
    LET Pos(i) == 1 + Cardinality({j \in 1..Len(xs) :
                          \/ keys[j] > keys[i]
                          \/ (keys[j] = keys[i] /\ j < i)})
    IN  [p \in 1..Len(xs) |-> xs[CHOOSE i \in 1..Len(xs) : Pos(i) = p]]

PoolKey(x) == x.vote_average * 10 + x.popularity

ItemKey(x) == x.score

IsDirector(x) == x.job = "Director"

IsWriter(x) == x.job \in {"Writer", "Screenplay", "Story"}

\* the person route's pool: role, media type and language filters, then the
\* sort by rating * 10 + popularity
PersonPool(credits, person_role, ct, lang) ==
    LET byRole == IF person_role = "director"
                  THEN SelectSeq(credits.crew, IsDirector)
                  ELSE IF person_role = "writer"
                  THEN SelectSeq(credits.crew, IsWriter)
                  ELSE credits.cast
        IsMedia(x) == x.media_type = (IF ct = "movie" THEN "movie" ELSE "tv")
        IsLang(x) == x.original_language = lang
        byMedia == SelectSeq(byRole, IsMedia)
        byLang == IF lang # "" THEN SelectSeq(byMedia, IsLang) ELSE byMedia
    IN  StableSortDesc(byLang, [k \in 1..Len(byLang) |-> PoolKey(byLang[k])])

NoBest == Cand(0, "", "", "", "", 0, 0, "", {})

\* the title route's choice among the multi-search results
BestMatch(m, ct) ==
    LET want == IF ct = "movie" THEN "movie"
                ELSE IF ct = "series" THEN "tv" ELSE "-"
        i == FirstIndex({j \in 1..Len(m) : m[j].media_type = want})
    IN  IF i # 0 THEN m[i] ELSE IF m # << >> THEN m[1] ELSE NoBest

IsSeed(best) == best # NoBest /\ best.id # 0 /\ best.media_type \in {"movie", "tv"}

\* the names _availability_text joins with ", "; the joined string is
\* represented by the sequence of its parts, "" by << >>
_availability_text(body) ==
    LET IsName(nm) == nm # ""
    IN  Take(DedupeKeepFirst(SelectSeq(body.names, IsName)), MaxSourceNames)


----------------------------------------------------------------------------
(* The memoized lookups.  Each takes the outcome o of the external call it  *)
(* would make ("ok", "error": network error, non-success status or          *)
(* unparseable body, "nokey": the wrapper's credential check raised,        *)
(* "malformed": a JSON body of another shape) and yields the value          *)
(* returned, the caches afterwards and the calls made.                      *)

Call(api, id, title, res) == [api |-> api, id |-> id, title |-> title, res |-> res]

Put(cache, key, value) ==
    [x \in DOMAIN cache \cup {key} |-> IF x = key THEN value ELSE cache[x]]

EmptyCache == [x \in {} |-> 0]

\* a lookup that returns None on a failure without recording it
_trailer_cached_forgets_failure(cache, tmdb_id, mt, o) ==
    LET key == <<tmdb_id, mt>>
    IN  IF key \in DOMAIN cache
        THEN [url |-> cache[key], cache |-> cache, log |-> << >>]
        ELSE [url |-> IF o = "ok" THEN WorldTrailer(tmdb_id, mt) ELSE None,
              cache |-> IF o = "ok"
                        THEN Put(cache, key, WorldTrailer(tmdb_id, mt))
                        ELSE cache,
              log |-> <<Call("tmdb_get_trailer_url", tmdb_id, "", o)>>]

\* The cache key an external enrichment call is made for: the title for the
\* availability title search, (title, region) for the sources call, (catalog
\* id, media type) for the trailer call.  Unused fields are blank.
LookupKey(call, mt) ==
    [api |-> call.api,
     id |-> IF call.api = "tmdb_get_trailer_url" THEN call.id ELSE 0,
     mt |-> IF call.api = "tmdb_get_trailer_url" THEN mt ELSE "",
     title |-> call.title,
     region |-> IF call.api = "watchmode_sources" THEN DEFAULT_REGION ELSE ""]

\* the tally of external calls per key after the calls in log
Counted(tally, log, mt) ==
    LET new == {LookupKey(log[j], mt) : j \in 1..Len(log)}
    IN  [k \in DOMAIN tally \cup new |->
            (IF k \in DOMAIN tally THEN tally[k] ELSE 0)
            + Cardinality({j \in 1..Len(log) : LookupKey(log[j], mt) = k})]

_trailer_cached(cache, tmdb_id, mt, o) ==
    LET key == <<tmdb_id, mt>>
    IN  IF key \in DOMAIN cache
        THEN [url |-> cache[key], cache |-> cache, log |-> << >>]
        ELSE LET url == IF o = "ok" THEN WorldTrailer(tmdb_id, mt) ELSE None
             IN  [url |-> url, cache |-> Put(cache, key, url),
                  log |-> <<Call("tmdb_get_trailer_url", tmdb_id, "", o)>>]

_best_watchmode_id(cache, title, o) ==
    IF title \in DOMAIN cache
    THEN [wm_id |-> cache[title], cache |-> cache, log |-> << >>]
    ELSE LET wm_id == IF o = "ok" THEN WorldWatchmodeId(title) ELSE 0
         IN  [wm_id |-> wm_id, cache |-> Put(cache, title, wm_id),
              log |-> <<Call("watchmode_search", 0, title, o)>>]

\* a sources lookup that never consults _WATCHMODE_SOURCES_CACHE
_watchmode_sources_uncached(sources, ids, title, region, o1, o2) ==
    LET key == <<title, region>>
        b == _best_watchmode_id(ids, title, o1)
        body == IF o2 = "ok" THEN ListBody(WorldSources(b.wm_id))
                ELSE IF o2 = "malformed" THEN MalformedBody
                ELSE ListBody(<< >>)
    IN  IF b.wm_id = 0
        THEN [body |-> ListBody(<< >>),
              sources |-> Put(sources, key, ListBody(<< >>)),
              ids |-> b.cache, log |-> b.log]
        ELSE [body |-> body, sources |-> Put(sources, key, body),
              ids |-> b.cache,
              log |-> b.log \o <<Call("watchmode_sources", b.wm_id, title, o2)>>]

\* o1: outcome of the title search, o2: outcome of the sources call
_watchmode_sources_cached(sources, ids, title, region, o1, o2) ==
    LET key == <<title, region>>
        b == _best_watchmode_id(ids, title, o1)
        body == IF o2 = "ok" THEN ListBody(WorldSources(b.wm_id))
                ELSE IF o2 = "malformed" THEN MalformedBody
                ELSE ListBody(<< >>)
    IN  IF key \in DOMAIN sources
        THEN [body |-> sources[key], sources |-> sources, ids |-> ids,
              log |-> << >>]
        ELSE IF b.wm_id = 0
        THEN [body |-> ListBody(<< >>),
              sources |-> Put(sources, key, ListBody(<< >>)),
              ids |-> b.cache, log |-> b.log]
        ELSE [body |-> body, sources |-> Put(sources, key, body),
              ids |-> b.cache,
              log |-> b.log \o <<Call("watchmode_sources", b.wm_id, title, o2)>>]

----------------------------------------------------------------------------
(* The requests and the oracle's answers the model draws from *)

Request(text, ct, lang, page, page_size) ==
    [user_text |-> text, content_type |-> ct, language |-> lang,
     page |-> page, page_size |-> page_size]

Requests ==
    { Request(<< >>, "series", "en", 1, 2),
      Request(<<"tom", "cruise", "movies">>, "", "", 1, 2),
      Request(<<"shows", "like", "inception">>, "", "", 2, 1),
      Request(<<"hindi", "comedy">>, "", "", 1, 10) }

Hint(ct, title, person, role, genres, keywords, yf, yt) ==
    [present |-> TRUE, content_type |-> ct, language |-> "",
     title_query |-> title, person_name |-> person, person_role |-> role,
     genres |-> genres, keywords |-> keywords, year_from |-> yf,
     year_to |-> yt]

\* g = gemini_parse_intent(user_text) or {}
NoHint ==
    [present |-> FALSE, content_type |-> "", language |-> "",
     title_query |-> << >>, person_name |-> "", person_role |-> "",
     genres |-> << >>, keywords |-> << >>, year_from |-> 0, year_to |-> 0]

Hints ==
    { Hint("movie", <<"inception">>, "nolan", "director", << >>, << >>,
           0, 2015),
      Hint("unknown", << >>, "", "", <<"crime", "noir">>,
           <<"heist", "revenge", "courtroom">>, 2016, 0) }

NoIntent == MergeIntent(Request(<< >>, "", "", 1, 10), NoHint)

\* how a call of recommend_ai ended; "at" is the step an exception left from
NoOutcome == [status |-> "none", error |-> "", at |-> ""]

Returned == [status |-> "returned", error |-> "", at |-> ""]

Raised(err, at) == [status |-> "raised", error |-> err, at |-> at]

CanFail == faults < MaxFaults

\* a request thread that is in no enrichment lookup
IdleThread ==
    [pc |-> "idle", fn |-> "", id |-> 0, title |-> "", o |-> "", wm_id |-> 0,
     val |-> None, body |-> ListBody(<< >>), n |-> 0]

Threads == {1, 2}

NoThreads == [t \in Threads |-> IdleThread]

Init ==
    /\ tmdb_key \in BOOLEAN
    /\ watchmode_key \in BOOLEAN
    /\ gemini_key \in BOOLEAN
    /\ idCache = EmptyCache
    /\ sourcesCache = EmptyCache
    /\ trailerCache = EmptyCache
    /\ pc = "idle"
    /\ req = Request(<< >>, "", "", 1, 10)
    /\ intent = NoIntent
    /\ candidates = << >>
    /\ media_type = "movie"
    /\ items = << >>
    /\ trailer_calls = 0
    /\ avail_calls = 0
    /\ cursor = 1
    /\ calls = << >>
    /\ outcome = NoOutcome
    /\ requests = 0
    /\ faults = 0
    /\ raw = << >>
    /\ lookups = EmptyCache
    /\ threads = NoThreads


----------------------------------------------------------------------------
(* recommend_ai, step by step *)

\* What a call of a TMDB wrapper can do: raise on the missing credential
\* before any request is sent, answer, or fail (requests.get raises, or
\* raise_for_status does).
TmdbOutcomes ==
    IF ~tmdb_key THEN {"nokey"}
    ELSE {"ok"} \cup (IF CanFail THEN {"error"} ELSE {})

WatchmodeOutcomes ==
    IF ~watchmode_key THEN {"nokey"}
    ELSE {"ok"} \cup (IF CanFail THEN {"error"} ELSE {})

ErrorOf(o) == IF o = "nokey" THEN "RuntimeError" ELSE "HTTPError"

IsFault(o) == o \in {"error", "malformed", "failed", "notobject"}

FaultCount(os) == Cardinality({j \in 1..Len(os) : IsFault(os[j])})

\* a router that does not look at the candidates found so far
RouteOpenAlways(c) == TRUE

\* "not candidates": the guard every route after the first is under
RouteOpen(c) == c = << >>

\* an exception leaves recommend_ai: nothing is returned
Abort(err, log) ==
    /\ pc' = "idle"
    /\ outcome' = Raised(err, pc)
    /\ calls' = calls \o log
    /\ faults' = faults + FaultCount([j \in 1..Len(log) |-> log[j].res])
    /\ UNCHANGED <<envVars, cacheVars, lookups, threads, raw, req, intent, candidates, media_type, loopVars, requests>>

\* the route is over: on to the next one
Advance(next, cands, mt, log) ==
    /\ pc' = next
    /\ candidates' = cands
    /\ media_type' = mt
    /\ calls' = calls \o log
    /\ UNCHANGED <<envVars, cacheVars, lookups, threads, raw, req, intent, loopVars, outcome, requests, faults>>

\* a call of recommend_ai with arguments drawn from R
StartRequestFrom(R) ==
    /\ pc = "idle"
    /\ requests < MaxRequests
    /\ \E r \in R : req' = r
    /\ requests' = requests + 1
    /\ pc' = "intent"
    /\ intent' = NoIntent
    /\ candidates' = << >>
    /\ media_type' = "movie"
    /\ items' = << >>
    /\ trailer_calls' = 0
    /\ avail_calls' = 0
    /\ cursor' = 1
    /\ calls' = << >>
    /\ outcome' = NoOutcome
    /\ raw' = << >>
    /\ UNCHANGED <<envVars, cacheVars, lookups, threads, faults>>

StartRequest == StartRequestFrom(Requests)

\* gemini_parse_intent: what the call yields for each answer of the oracle.
\* o = "nokey": GEMINI_API_KEY unset (no call); "ok": a JSON object, the
\* hint; "unparseable": json.loads raises; "failed": generate_content
\* raises; "notobject": the body is JSON, but no object.
gemini_parse_intent(o, hint) ==
    CASE o = "nokey"       -> [raised |-> "", g |-> NoHint, log |-> << >>]
      [] o = "ok"          -> [raised |-> "", g |-> hint,
                               log |-> <<Call("gemini", 0, "", o)>>]
      [] o = "unparseable" -> [raised |-> "", g |-> NoHint,
                               log |-> <<Call("gemini", 0, "", o)>>]
      [] o = "failed"      -> [raised |-> "APIError", g |-> NoHint,
                               log |-> <<Call("gemini", 0, "", o)>>]
      [] OTHER             -> [raised |-> "AttributeError", g |-> NoHint,
                               log |-> <<Call("gemini", 0, "", o)>>]

GeminiOutcomes ==
    IF ~gemini_key THEN {"nokey"}
    ELSE {"ok", "unparseable"}
         \cup (IF CanFail THEN {"failed", "notobject"} ELSE {})

\* lines 168-199: the oracle call and the merge, the oracle's answers
\* being drawn from H
IntentWith(H) ==
    /\ pc = "intent"
    /\ \E o \in GeminiOutcomes :
       \E hint \in (IF o = "ok" THEN H ELSE {NoHint}) :
          LET r == gemini_parse_intent(o, hint)
              m == MergeIntent(req, r.g)
          IN  IF r.raised # ""
              THEN Abort(r.raised, r.log)
              ELSE /\ intent' = m
                   /\ media_type' = (IF m.ct = "movie" THEN "movie" ELSE "tv")
                   /\ candidates' = << >>
                   /\ calls' = calls \o r.log
                   /\ pc' = "person"
                   /\ UNCHANGED <<envVars, cacheVars, lookups, threads, raw, req, loopVars, outcome, requests, faults>>

PersonRoute ==
    /\ pc = "person"
    /\ IF ~(intent.person_name # "" \/ _looks_like_person_query(req.user_text))
       THEN Advance("title", candidates, media_type, << >>)
       ELSE \E o \in TmdbOutcomes :
            LET c1 == <<Call("tmdb_search_person", 0, "", o)>>
            IN  IF o # "ok" THEN Abort(ErrorOf(o), c1)
                ELSE \E pr \in PersonResults :
                     IF pr = << >>
                     THEN Advance("title", candidates, media_type, c1)
                     ELSE \E o2 \in TmdbOutcomes :
                          LET c2 == c1 \o <<Call("tmdb_person_credits",
                                                 pr[1].id, "", o2)>>
                          IN  IF o2 # "ok" THEN Abort(ErrorOf(o2), c2)
                              ELSE \E cr \in CreditsAnswers :
                                   Advance("title",
                                       PersonPool(cr, intent.person_role,
                                                  intent.ct, intent.lang),
                                       media_type, c2)

Intent == IntentWith(Hints)

SimilarAnswers(mt) ==
    IF mt = "movie" THEN { << >>, SubSeq(MovieResults, 1, 3) }
    ELSE { << >>, TvResults }

\* a title route that keeps the similar list alone
SimilarOnly(best, sim) == sim

\* candidates = sim; candidates = [best] + candidates
SeedFirst(best, sim) == <<best>> \o sim

TitleRoute ==
    /\ pc = "title"
    /\ IF ~(RouteOpen(candidates) /\ intent.title_query # << >>)
       THEN Advance("keyword", candidates, media_type, << >>)
       ELSE \E o \in TmdbOutcomes :
            LET c1 == <<Call("tmdb_search_multi", 0, "", o)>>
            IN  IF o # "ok" THEN Abort(ErrorOf(o), c1)
                ELSE \E m \in MultiResults :
                     LET best == BestMatch(m, intent.ct)
                     IN  IF ~IsSeed(best)
                         THEN Advance("keyword", candidates, media_type, c1)
                         ELSE \E o2 \in TmdbOutcomes :
                              LET c2 == c1 \o <<Call("tmdb_similar", best.id,
                                                     "", o2)>>
                              IN  IF o2 # "ok" THEN Abort(ErrorOf(o2), c2)
                                  ELSE \E sim \in SimilarAnswers(best.media_type) :
                                       Advance("keyword", SeedFirst(best, sim),
                                               best.media_type, c2)

\* the keyword parameters tmdb_discover_movie and tmdb_discover_tv declare
DiscoverParams == {"genres", "page", "language", "year_from", "year_to"}

\* the keyword arguments the keyword route calls them with
KeywordRouteKwargs ==
    {"genres", "page", "language", "year_from", "year_to", "with_keywords"}

DefaultRouteKwargs == {"genres", "page", "language", "year_from", "year_to"}

\* Python binds the call only if every keyword argument is a parameter;
\* otherwise it raises TypeError before the function body runs.
Accepts(params, kwargs) == kwargs \subseteq params

DiscoverApi(ct) == IF ct = "movie" THEN "tmdb_discover_movie" ELSE "tmdb_discover_tv"

SearchApi(ct) == IF ct = "movie" THEN "tmdb_search_movie" ELSE "tmdb_search_tv"

MediaOf(ct) == IF ct = "movie" THEN "movie" ELSE "tv"

\* one discover call of the keyword or default route, after the calls in log
Discover(kwargs, next, log) ==
    IF ~Accepts(DiscoverParams, kwargs)
    THEN Abort("TypeError", log)
    ELSE \E o \in TmdbOutcomes :
         LET c == log \o <<Call(DiscoverApi(intent.ct), 0, "", o)>>
         IN  IF o # "ok" THEN Abort(ErrorOf(o), c)
             ELSE \E res \in ListAnswers(MediaOf(intent.ct)) :
                  Advance(next, res, MediaOf(intent.ct), c)

KeywordRoute ==
    /\ pc = "keyword"
    /\ IF ~(RouteOpen(candidates) /\ intent.keyword_terms # << >>)
       THEN Advance("default", candidates, media_type, << >>)
       ELSE LET terms == Take(intent.keyword_terms, 2)
            IN  \E k \in 0..Len(terms) :
                \E rs \in [1..k -> KeywordResults] :
                   LET done == [j \in 1..k |->
                                  Call("tmdb_search_keyword", 0, terms[j], "ok")]
                   IN  /\ k > 0 => tmdb_key
                       /\ IF k < Len(terms)
                          THEN \E o \in TmdbOutcomes \ {"ok"} :
                               Abort(ErrorOf(o), done \o
                                   <<Call("tmdb_search_keyword", 0,
                                          terms[k + 1], o)>>)
                          ELSE Discover(KeywordRouteKwargs, "default", done)

DefaultRoute ==
    /\ pc = "default"
    /\ IF ~RouteOpen(candidates)
       THEN Advance("fallback", candidates, media_type, << >>)
       ELSE Discover(DefaultRouteKwargs, "fallback", << >>)

FallbackSearch ==
    /\ pc = "fallback"
    /\ IF ~(RouteOpen(candidates) /\ req.user_text # << >>)
       THEN Advance("dedupe", candidates, media_type, << >>)
       ELSE \E o \in TmdbOutcomes :
            LET c == <<Call(SearchApi(intent.ct), 0, "", o)>>
            IN  IF o # "ok" THEN Abort(ErrorOf(o), c)
                ELSE \E res \in SearchAnswers(MediaOf(intent.ct)) :
                     Advance("dedupe", res, MediaOf(intent.ct), c)

\* lines 317-322
Dedupe ==
    /\ pc = "dedupe"
    /\ raw' = candidates
    /\ candidates' = _dedupe_by_id(candidates)
    /\ items' = << >>
    /\ trailer_calls' = 0
    /\ avail_calls' = 0
    /\ cursor' = 1
    /\ pc' = "loop"
    /\ UNCHANGED <<envVars, cacheVars, lookups, threads, req, intent, media_type, calls, outcome, requests, faults>>


\* an off-by-one budget test
TrailerBudgetLeftInclusive(n) == n <= TRAILER_LOOKUPS_PER_REQUEST

TrailerBudgetLeft(n) == n < TRAILER_LOOKUPS_PER_REQUEST

AvailabilityBudgetLeft(n) == n < AVAILABILITY_LOOKUPS_PER_REQUEST

\* c.get("title") if media_type == "movie" else c.get("name")
TitleOf(c, mt) == IF mt = "movie" THEN c.title ELSE c.name

\* time.sleep(WATCHMODE_SLEEP_BETWEEN_CALLS)
Sleep == Call("sleep", 0, "", "ok")

\* similar_bonus=0.06 if title_query else 0.0, in hundredths
SimilarBonus(title_query) == IF title_query # << >> THEN 6 ELSE 0

Item(c, mt, title, trailer, availability, score) ==
    [type |-> IF mt = "movie" THEN "movie" ELSE "series",
     title |-> title, rating |-> c.vote_average, popularity |-> c.popularity,
     language |-> c.original_language, tmdb_id |-> c.id,
     trailer_url |-> trailer, available_on |-> availability, score |-> score]

\* a loop that stops one item late
PageFullOffByOne(n, page_size) == n > page_size

\* a loop that never stops before the candidates run out
PageNeverFull(n, page_size) == FALSE

\* "if len(items) >= page_size: break", tested after the append
PageFull(n, page_size) == n >= page_size

\* lines 324-365: one pass of the loop body over candidates[cursor], for
\* the outcomes ot (trailer call), o1 (availability title search) and o2
\* (availability sources call) of the external calls it makes
LoopBody(c, ot, o1, o2) ==
    LET title == TitleOf(c, media_type)
        tryT == TrailerBudgetLeft(trailer_calls)
        tryA == AvailabilityBudgetLeft(avail_calls)
        t == IF tryT THEN _trailer_cached(trailerCache, c.id, media_type, ot)
             ELSE [url |-> None, cache |-> trailerCache, log |-> << >>]
        w == IF tryA
             THEN _watchmode_sources_cached(sourcesCache, idCache, title,
                                            DEFAULT_REGION, o1, o2)
             ELSE [body |-> ListBody(<< >>), sources |-> sourcesCache,
                   ids |-> idCache, log |-> << >>]
        score == _score_100(c, intent.genre_ids, intent.lang,
                            SimilarBonus(intent.title_query))
        item == Item(c, media_type, title, t.url, _availability_text(w.body),
                     score)
        log == t.log \o w.log
    IN  /\ trailerCache' = t.cache
        /\ sourcesCache' = w.sources
        /\ idCache' = w.ids
        /\ trailer_calls' = IF tryT THEN trailer_calls + 1 ELSE trailer_calls
        /\ faults' = faults + FaultCount([j \in 1..Len(log) |-> log[j].res])
        /\ lookups' = Counted(lookups, log, media_type)
        /\ IF w.body.shape # "list"
           THEN \* "for s in sources: s.get(...)" raises AttributeError
                /\ calls' = calls \o log
                /\ outcome' = Raised("AttributeError", pc)
                /\ pc' = "idle"
                /\ UNCHANGED <<items, avail_calls, cursor>>
           ELSE /\ calls' = calls \o log \o (IF tryA THEN <<Sleep>> ELSE << >>)
                /\ avail_calls' = IF tryA THEN avail_calls + 1 ELSE avail_calls
                /\ items' = Append(items, item)
                /\ cursor' = cursor + 1
                /\ pc' = IF PageFull(Len(items) + 1, req.page_size) THEN "sort" ELSE "loop"
                /\ outcome' = outcome
        /\ UNCHANGED <<envVars, req, intent, candidates, media_type, requests, raw, threads>>

\* the outcomes the external calls of one pass can have
TrailerCallOutcomes(c) ==
    IF TrailerBudgetLeft(trailer_calls)
       /\ <<c.id, media_type>> \notin DOMAIN trailerCache
    THEN TmdbOutcomes ELSE {"none"}

SearchCallOutcomes(c) ==
    IF AvailabilityBudgetLeft(avail_calls)
       /\ <<TitleOf(c, media_type), DEFAULT_REGION>> \notin DOMAIN sourcesCache
       /\ TitleOf(c, media_type) \notin DOMAIN idCache
    THEN WatchmodeOutcomes ELSE {"none"}

SourcesCallOutcomes(c, o1) ==
    IF AvailabilityBudgetLeft(avail_calls)
       /\ <<TitleOf(c, media_type), DEFAULT_REGION>> \notin DOMAIN sourcesCache
       /\ _best_watchmode_id(idCache, TitleOf(c, media_type), o1).wm_id # 0
    THEN WatchmodeOutcomes \cup (IF watchmode_key /\ CanFail THEN {"malformed"} ELSE {})
    ELSE {"none"}

ItemLoop ==
    /\ pc = "loop"
    /\ IF cursor > Len(candidates)
       THEN /\ pc' = "sort"
            /\ UNCHANGED <<envVars, cacheVars, lookups, threads, raw, req, intent, candidates, media_type, loopVars, calls, outcome, requests, faults>>
       ELSE LET c == candidates[cursor]
            IN  IF c.id = 0 \/ TitleOf(c, media_type) = ""
                THEN /\ cursor' = cursor + 1
                     /\ UNCHANGED <<envVars, cacheVars, lookups, threads, raw, req, intent, candidates, media_type, items, trailer_calls, avail_calls, pc, calls, outcome, requests, faults>>
                ELSE \E ot \in TrailerCallOutcomes(c) :
                     \E o1 \in SearchCallOutcomes(c) :
                     \E o2 \in SourcesCallOutcomes(c, o1) :
                        /\ faults + FaultCount(<<ot, o1, o2>>) <= MaxFaults
                        /\ LoopBody(c, ot, o1, o2)

\* lines 367-385: the final sort and the envelope
SortAndReturn ==
    /\ pc = "sort"
    /\ items' = StableSortDesc(items, [k \in 1..Len(items) |-> ItemKey(items[k])])
    /\ outcome' = Returned
    /\ pc' = "idle"
    /\ UNCHANGED <<envVars, cacheVars, lookups, threads, raw, req, intent, candidates, media_type, trailer_calls, avail_calls, cursor, calls, requests, faults>>

Next ==
    \/ StartRequest
    \/ Intent
    \/ PersonRoute
    \/ TitleRoute
    \/ KeywordRoute
    \/ DefaultRoute
    \/ FallbackSearch
    \/ Dedupe
    \/ ItemLoop
    \/ SortAndReturn

Spec == Init /\ [][Next]_vars


----------------------------------------------------------------------------
(* The intent merge over a wide range of inputs: recommend_ai up to the    *)
(* end of the merge (line 199), for every combination of the texts,        *)
(* overrides and oracle answers below.                                      *)

MergeTexts ==
    { << >>,
      <<"shows", "like", "inception">>,
      <<"hindi", "comedy">>,
      <<"between", "2020", "and", "2015">>,
      <<"between", "1999", "to", "2015", "since", "2019">>,
      <<"after", "2015">>,
      <<"since", "2015">>,
      <<"before", "2015">>,
      <<"until", "2015">>,
      <<"after", "2015", "before", "2020">>,
      <<"before", "2020", "2015">>,
      <<"2019", "movies">>,
      <<"1999", "2019">>,
      <<"series", "2019", "2019">>,
      <<"comedy", "action">>,
      <<"action", "comedy", "action">>,
      <<"anime", "animation", "drama">>,
      <<"thrilling", "comedy">> }

\* the content_type argument: absent, a documented value, a synonym, and
\* another string (the parameter is Optional[str])
MergeOverrides == {"", "series", "tv", "film"}

MergeRequests ==
    {Request(t, ct, "", 1, 10) : t \in MergeTexts, ct \in MergeOverrides}

\* the genre words of an answer: none, a catalog name with a word the
\* catalog does not know, only such a word, and a repeated name
MergeGenreWords ==
    { << >>, <<"crime", "noir">>, <<"noir">>,
      <<"comedy", "crime", "comedy">> }

\* the oracle's answers: each content type of INTENT_JSON_SPEC or none,
\* at most one of the two year bounds, and the genre words above
MergeHints ==
    {Hint(ct, << >>, "", "", ws, << >>, y[1], y[2]) :
        ct \in {"movie", "series", "unknown", ""},
        y \in {<<0, 0>>, <<2016, 0>>, <<0, 2015>>},
        ws \in MergeGenreWords}

MergeStart == StartRequestFrom(MergeRequests)

MergeStep == IntentWith(MergeHints)

MergeNext ==
    \/ MergeStart
    \/ MergeStep

MergeSpec == Init /\ [][MergeNext]_vars


----------------------------------------------------------------------------
(* Deduplication, scoring and the final sort over a wide range of          *)
(* candidates: recommend_ai from line 317 on, for every candidate list and *)
(* every target below, with the upstream services answering.               *)

\* one candidate for every rating, popularity, genre set and language
ScoreCandidates ==
    {Cand(1, "A", "", "movie", "", r, p, l, gs) :
        r \in 0..10, p \in {0, 100, 199, 200, 201, 1000},
        l \in {"en", "hi"}, gs \in SUBSET {28, 35}}

\* genre_ids, lang and title_query of the intent
RankIntents ==
    {[NoIntent EXCEPT !.genre_ids = gs, !.lang = l, !.title_query = tq] :
        gs \in {<< >>, <<28>>, <<28, 35>>}, l \in {"", "en"},
        tq \in {<< >>, <<"inception">>}}

\* candidates with repeated ids (1, 2), one without an id, one without
\* a title, and a third id
DedupePool ==
    { Cand(1, "A", "", "movie", "", 6, 40, "en", {28}),
      Cand(1, "A2", "", "movie", "", 9, 300, "en", {28}),
      Cand(2, "B", "", "movie", "", 8, 100, "hi", {35}),
      Cand(2, "", "", "movie", "", 8, 100, "hi", {35}),
      Cand(0, "Z", "", "movie", "", 9, 300, "en", {28}),
      Cand(3, "C", "", "movie", "", 7, 250, "en", {28}) }

\* the page_size argument for those lists
RankPageSizes == {1, 2, 10}

DedupeInputs == UNION {[1..k -> DedupePool] : k \in 0..MaxCandidates}

RankInit ==
    /\ tmdb_key = TRUE
    /\ watchmode_key = TRUE
    /\ gemini_key = FALSE
    /\ idCache = EmptyCache
    /\ sourcesCache = EmptyCache
    /\ trailerCache = EmptyCache
    /\ pc = "dedupe"
    /\ \/ /\ candidates \in {<<c>> : c \in ScoreCandidates}
          /\ intent \in RankIntents
          /\ req = Request(<< >>, "", "", 1, 10)
       \/ /\ candidates \in DedupeInputs
          /\ intent = NoIntent
          /\ req \in {Request(<< >>, "", "", 1, n) : n \in RankPageSizes}
    /\ media_type = "movie"
    /\ items = << >>
    /\ trailer_calls = 0
    /\ avail_calls = 0
    /\ cursor = 1
    /\ calls = << >>
    /\ outcome = NoOutcome
    /\ requests = 1
    /\ faults = MaxFaults
    /\ raw = << >>
    /\ lookups = EmptyCache
    /\ threads = NoThreads

RankNext ==
    \/ Dedupe
    \/ ItemLoop
    \/ SortAndReturn

RankSpec == RankInit /\ [][RankNext]_vars


----------------------------------------------------------------------------
(* Concurrent requests.  recommend_ai is a plain blocking function; the    *)
(* threads of a server that call it share the three module-level caches,   *)
(* which no lock guards.  Each thread below is a request inside its item   *)
(* loop that runs _trailer_cached or _watchmode_sources_cached (with       *)
(* _best_watchmode_id inside) one statement at a time: the test of the     *)
(* cache, the external call and the store are separate steps, between      *)
(* which the other thread may run.                                         *)

\* the keys the threads look up: catalog ids and titles
RaceIds == {1, 2}

RaceTitles == {"A", "C"}

RaceInit ==
    /\ Init
    /\ tmdb_key
    /\ watchmode_key
    /\ ~gemini_key

\* thread t moves to rec, leaving the caches tc, ic, sc, after the calls in log
ThreadStep(t, rec, tc, ic, sc, log) ==
    /\ threads' = [threads EXCEPT ![t] = rec]
    /\ trailerCache' = tc
    /\ idCache' = ic
    /\ sourcesCache' = sc
    /\ calls' = calls \o log
    /\ lookups' = Counted(lookups, log, media_type)
    /\ faults' = faults + FaultCount([j \in 1..Len(log) |-> log[j].res])
    /\ UNCHANGED <<envVars, pc, req, intent, candidates, media_type, loopVars, outcome, requests, raw>>

\* a thread's request reaches an enrichment lookup of its item loop
ThreadStart ==
    \E t \in Threads :
       /\ threads[t].pc \in {"idle", "done"}
       /\ threads[t].n < MaxLookups
       /\ \/ \E id \in RaceIds :
                ThreadStep(t, [IdleThread EXCEPT !.pc = "t_check",
                                  !.fn = "trailer", !.id = id,
                                  !.n = threads[t].n + 1],
                           trailerCache, idCache, sourcesCache, << >>)
          \/ \E title \in RaceTitles :
                ThreadStep(t, [IdleThread EXCEPT !.pc = "s_check",
                                  !.fn = "sources", !.title = title,
                                  !.n = threads[t].n + 1],
                           trailerCache, idCache, sourcesCache, << >>)

\* _trailer_cached, lines 110-112: the test of the cache
TrailerCheck ==
    \E t \in Threads :
       LET th == threads[t]
           key == <<th.id, media_type>>
       IN  /\ th.pc = "t_check"
           /\ ThreadStep(t, IF key \in DOMAIN trailerCache
                            THEN [th EXCEPT !.pc = "done", !.o = "hit",
                                            !.val = trailerCache[key]]
                            ELSE [th EXCEPT !.pc = "t_call"],
                         trailerCache, idCache, sourcesCache, << >>)

\* lines 113-116: the external call, under try/except
TrailerCall ==
    \E t \in Threads : \E o \in TmdbOutcomes :
       LET th == threads[t]
       IN  /\ th.pc = "t_call"
           /\ ThreadStep(t, [th EXCEPT !.pc = "t_store", !.o = o,
                                !.val = IF o = "ok"
                                        THEN WorldTrailer(th.id, media_type)
                                        ELSE None],
                         trailerCache, idCache, sourcesCache,
                         <<Call("tmdb_get_trailer_url", th.id, "", o)>>)

\* lines 117-118: the store and the return
TrailerStore ==
    \E t \in Threads :
       LET th == threads[t]
       IN  /\ th.pc = "t_store"
           /\ ThreadStep(t, [th EXCEPT !.pc = "done"],
                         Put(trailerCache, <<th.id, media_type>>, th.val),
                         idCache, sourcesCache, << >>)

\* _watchmode_sources_cached, lines 80-82: the test of the cache
SourcesCheck ==
    \E t \in Threads :
       LET th == threads[t]
           key == <<th.title, DEFAULT_REGION>>
       IN  /\ th.pc = "s_check"
           /\ ThreadStep(t, IF key \in DOMAIN sourcesCache
                            THEN [th EXCEPT !.pc = "done", !.o = "hit",
                                            !.body = sourcesCache[key]]
                            ELSE [th EXCEPT !.pc = "id_check"],
                         trailerCache, idCache, sourcesCache, << >>)

\* _best_watchmode_id, lines 66-67: the test of the cache
IdCheck ==
    \E t \in Threads :
       LET th == threads[t]
       IN  /\ th.pc = "id_check"
           /\ ThreadStep(t, IF th.title \in DOMAIN idCache
                            THEN [th EXCEPT !.pc = "s_branch",
                                            !.wm_id = idCache[th.title]]
                            ELSE [th EXCEPT !.pc = "id_call"],
                         trailerCache, idCache, sourcesCache, << >>)

\* lines 68-71 and 74: the title search, under try/except
IdCall ==
    \E t \in Threads : \E o \in WatchmodeOutcomes :
       LET th == threads[t]
       IN  /\ th.pc = "id_call"
           /\ ThreadStep(t, [th EXCEPT !.pc = "id_store",
                                !.wm_id = IF o = "ok"
                                          THEN WorldWatchmodeId(th.title)
                                          ELSE 0],
                         trailerCache, idCache, sourcesCache,
                         <<Call("watchmode_search", 0, th.title, o)>>)

\* lines 72-73 and 75-76: the store and the return
IdStore ==
    \E t \in Threads :
       LET th == threads[t]
       IN  /\ th.pc = "id_store"
           /\ ThreadStep(t, [th EXCEPT !.pc = "s_branch"],
                         trailerCache, Put(idCache, th.title, th.wm_id),
                         sourcesCache, << >>)

\* _watchmode_sources_cached, lines 84-87: no id, the empty list is stored
SourcesBranch ==
    \E t \in Threads :
       LET th == threads[t]
       IN  /\ th.pc = "s_branch"
           /\ IF th.wm_id = 0
              THEN ThreadStep(t, [th EXCEPT !.pc = "done",
                                     !.body = ListBody(<< >>)],
                              trailerCache, idCache,
                              Put(sourcesCache, <<th.title, DEFAULT_REGION>>,
                                  ListBody(<< >>)), << >>)
              ELSE ThreadStep(t, [th EXCEPT !.pc = "s_call"],
                              trailerCache, idCache, sourcesCache, << >>)

\* lines 89-92: the sources call, under try/except
SourcesCall ==
    \E t \in Threads : \E o \in WatchmodeOutcomes :
       LET th == threads[t]
       IN  /\ th.pc = "s_call"
           /\ ThreadStep(t, [th EXCEPT !.pc = "s_store", !.o = o,
                                !.body = IF o = "ok"
                                         THEN ListBody(WorldSources(th.wm_id))
                                         ELSE ListBody(<< >>)],
                         trailerCache, idCache, sourcesCache,
                         <<Call("watchmode_sources", th.wm_id, th.title, o)>>)

\* lines 94-95: the store and the return
SourcesStore ==
    \E t \in Threads :
       LET th == threads[t]
       IN  /\ th.pc = "s_store"
           /\ ThreadStep(t, [th EXCEPT !.pc = "done"],
                         trailerCache, idCache,
                         Put(sourcesCache, <<th.title, DEFAULT_REGION>>,
                             th.body), << >>)

RaceNext ==
    \/ ThreadStart
    \/ TrailerCheck
    \/ TrailerCall
    \/ TrailerStore
    \/ SourcesCheck
    \/ IdCheck
    \/ IdCall
    \/ IdStore
    \/ SourcesBranch
    \/ SourcesCall
    \/ SourcesStore

RaceSpec == RaceInit /\ [][RaceNext]_vars


----------------------------------------------------------------------------
(* api/app.py: the HTTP layer over recommend_ai, and recommend_ai called   *)
(* with a limit.  Python resolves the names of a "from ... import" when    *)
(* the importing module is loaded, and binds keyword arguments before the  *)
(* body of the called function runs.                                       *)

\* the names the module recommender.py defines or imports
RecommenderNames ==
    {"gemini_parse_intent", "tmdb_search_multi", "tmdb_search_person",
     "tmdb_person_credits", "tmdb_search_keyword", "os", "time", "Path",
     "Dict", "List", "Optional", "Tuple", "load_dotenv", "parse_intent",
     "tmdb_discover_movie", "tmdb_discover_tv", "tmdb_search_movie",
     "tmdb_search_tv", "tmdb_similar", "tmdb_get_trailer_url",
     "tmdb_poster_url", "tmdb_backdrop_url", "watchmode_search",
     "watchmode_sources", "DEFAULT_REGION",
     "AVAILABILITY_LOOKUPS_PER_REQUEST", "TRAILER_LOOKUPS_PER_REQUEST",
     "WATCHMODE_SLEEP_BETWEEN_CALLS", "_WATCHMODE_ID_CACHE",
     "_WATCHMODE_SOURCES_CACHE", "_TRAILER_CACHE", "_normalize_content_type",
     "_rating", "_popularity", "_best_watchmode_id",
     "_watchmode_sources_cached", "_availability_text", "_trailer_cached",
     "_score_100", "_looks_like_person_query", "_dedupe_by_id",
     "recommend_ai"}

\* from src.core.recommender import recommend_ai, upcoming
AppImports == {"recommend_ai", "upcoming"}

\* the parameters recommend_ai declares
RecommendParams ==
    {"user_text", "content_type", "language", "page", "page_size"}

\* the keyword arguments the endpoint calls it with
AiKwargs == {"user_text", "content_type", "language", "limit"}

\* the body of POST /ai; limit is validated to 1..30
AIRequest(text, ct, lang, limit) ==
    [text |-> text, content_type |-> ct, language |-> lang, limit |-> limit]

AIRequests ==
    {AIRequest(r.user_text, r.content_type, r.language, n) :
        r \in Requests, n \in {1, 10, 30}}

\* a call that ends in an exception before recommend_ai runs
Reject(err, at) ==
    /\ pc = "idle"
    /\ requests < MaxRequests
    /\ requests' = requests + 1
    /\ pc' = "idle"
    /\ outcome' = Raised(err, at)
    /\ UNCHANGED <<envVars, cacheVars, lookups, threads, raw, req, intent, candidates, media_type, loopVars, calls, faults>>

\* recommend_ai(**kwargs): r holds the values the parameters are bound to
\* (the defaults page = 1, page_size = 10 for those not passed)
CallRecommend(kwargs, r) ==
    IF Accepts(RecommendParams, kwargs)
    THEN StartRequestFrom({r})
    ELSE Reject("TypeError", "call")

\* recommend_ai(user_text=..., content_type=..., language=..., limit=n)
LimitCall ==
    \E b \in AIRequests :
        CallRecommend(AiKwargs,
                      Request(b.text, b.content_type, b.language, 1, 10))

\* POST /ai served by api/app.py
ai ==
    \E b \in AIRequests :
        IF ~(AppImports \subseteq RecommenderNames)
        THEN Reject("ImportError", "import")
        ELSE CallRecommend(AiKwargs,
                 Request(b.text, b.content_type, b.language, 1, 10))

ApiNext ==
    \/ ai
    \/ LimitCall
    \/ Next

ApiSpec == Init /\ [][ApiNext]_vars


----------------------------------------------------------------------------
(* Vocabulary of the properties *)

PersonApis == {"tmdb_search_person", "tmdb_person_credits"}

TitleApis == {"tmdb_search_multi", "tmdb_similar"}

KeywordApis == {"tmdb_search_keyword"}

DiscoverApis == {"tmdb_discover_movie", "tmdb_discover_tv"}

FallbackApis == {"tmdb_search_movie", "tmdb_search_tv"}

RetrievalApis ==
    PersonApis \cup TitleApis \cup KeywordApis \cup DiscoverApis \cup FallbackApis

WatchmodeApis == {"watchmode_search", "watchmode_sources"}

RoutePcs == {"person", "title", "keyword", "default", "fallback"}

IsRetrieval(c) == c.api \in RetrievalApis

\* the retrieval calls of the request so far, in order
RetrievalLog(log) == SelectSeq(log, IsRetrieval)

\* the position of a retrieval call's route in the order of the router
RouteRank(api) ==
    CASE api \in PersonApis   -> 1
      [] api \in TitleApis    -> 2
      [] api \in KeywordApis  -> 3
      [] api \in DiscoverApis -> 4
      [] OTHER                -> 5

CallsOf(apis) == {j \in 1..Len(calls) : calls[j].api \in apis}

Finished == pc = "idle" /\ outcome.status = "returned"

IsValid(c) == c.id # 0 /\ TitleOf(c, media_type) # ""

\* the candidates the item loop makes items of, in iteration order
ValidCandidates == SelectSeq(candidates, IsValid)

\* the position of the candidate with this id in iteration order (0: none)
Rank(id) == FirstIndex({j \in 1..Len(ValidCandidates) : ValidCandidates[j].id = id})

\* the calls a step appends to the log
NewCalls == SubSeq(calls', Len(calls) + 1, Len(calls'))


----------------------------------------------------------------------------
(* C1: the routes are attempted in the order person, title, keyword,       *)
(* default discovery, fallback search, and once a route has yielded at     *)
(* least one candidate no retrieval call of a later route is issued: a     *)
(* route step taken with a non-empty candidate list adds no retrieval call,*)
(* and the retrieval calls of a request appear in route order.             *)
C1_RouterShortCircuits ==
    [][ /\ (pc \in RoutePcs /\ candidates # << >>)
            => RetrievalLog(calls') = RetrievalLog(calls)
        /\ LET r == RetrievalLog(calls')
           IN  \A j \in 1..(Len(r) - 1) :
                   RouteRank(r[j].api) <= RouteRank(r[j + 1].api) ]_vars

\* C1 witness: a request with a title query whose person route yielded the
\* candidates has returned items, and only person-route calls were made.
C1_Witness ==
    /\ Finished
    /\ items # << >>
    /\ intent.title_query # << >>
    /\ CallsOf(PersonApis) # {}
    /\ CallsOf(RetrievalApis \ PersonApis) = {}

(* C2: a failed lookup of a route (person search, person credits, multi    *)
(* search, similar, keyword search, discover) makes the route count as     *)
(* empty and the router go on with the next route: right after such a      *)
(* failure the request is still running, at a later route, with no         *)
(* candidates.                                                             *)
C2_FailedRouteIsEmpty ==
    (/\ calls # << >>
     /\ Last(calls).api \in PersonApis \cup TitleApis \cup KeywordApis
                             \cup DiscoverApis
     /\ Last(calls).res = "error")
    => /\ outcome.status # "raised"
       /\ pc \in {"title", "keyword", "default", "fallback"}
       /\ candidates = << >>

(* C3: with the catalog and availability credentials present, every call   *)
(* of recommend_ai returns an envelope whatever the upstream services      *)
(* answer; none ends with a raised failure.  (A failure raised by the      *)
(* oracle step is the subject of C9 and is left aside here.)               *)
C3_AlwaysResponds ==
    (tmdb_key /\ watchmode_key)
    => ~(outcome.status = "raised" /\ outcome.at # "intent")

(* C4: when keyword terms exist and the person and title routes yielded    *)
(* nothing, at most the first two terms are resolved and a filtered        *)
(* discovery call is issued: once the keyword searches of the route have   *)
(* all answered, the log holds a discovery call.                           *)
C4_KeywordRouteDiscovers ==
    (/\ pc \notin {"idle", "intent", "person", "title", "keyword"}
        \/ (pc = "idle" /\ outcome.status = "raised" /\ outcome.at = "keyword")
     /\ intent.keyword_terms # << >>
     /\ Cardinality({j \in CallsOf(KeywordApis) : calls[j].res = "ok"})
            = Len(Take(intent.keyword_terms, 2)))
    => /\ CallsOf(DiscoverApis) # {}
       /\ Cardinality(CallsOf(KeywordApis)) <= 2

(* C5: within one request at most TRAILER_LOOKUPS_PER_REQUEST trailer      *)
(* lookups and AVAILABILITY_LOOKUPS_PER_REQUEST availability lookups are   *)
(* attempted, they go to the first candidates in iteration order, and an   *)
(* item no lookup was attempted for has trailer_url None and an empty      *)
(* available_on.                                                           *)
C5_EnrichmentBudgets ==
    /\ trailer_calls <= TRAILER_LOOKUPS_PER_REQUEST
    /\ avail_calls <= AVAILABILITY_LOOKUPS_PER_REQUEST
    /\ Cardinality(CallsOf({"tmdb_get_trailer_url"})) <= TRAILER_LOOKUPS_PER_REQUEST
    /\ Cardinality(CallsOf({"watchmode_search"})) <= AVAILABILITY_LOOKUPS_PER_REQUEST
    /\ Cardinality(CallsOf({"watchmode_sources"})) <= AVAILABILITY_LOOKUPS_PER_REQUEST
    /\ (pc \in {"loop", "sort"} \/ Finished) =>
          /\ trailer_calls = Min(Len(items), TRAILER_LOOKUPS_PER_REQUEST)
          /\ avail_calls = Min(Len(items), AVAILABILITY_LOOKUPS_PER_REQUEST)
          /\ \A k \in 1..Len(items) :
                /\ Rank(items[k].tmdb_id) > TRAILER_LOOKUPS_PER_REQUEST
                      => items[k].trailer_url = None
                /\ Rank(items[k].tmdb_id) > AVAILABILITY_LOOKUPS_PER_REQUEST
                      => items[k].available_on = << >>

\* C5 witness: a request returned more items than either budget, and one
\* within the budgets carries a trailer and an availability text.
C5_Witness ==
    /\ Finished
    /\ Len(items) > AVAILABILITY_LOOKUPS_PER_REQUEST
    /\ \E k \in 1..Len(items) :
          /\ items[k].trailer_url # None
          /\ items[k].available_on # << >>
    /\ \E k \in 1..Len(items) :
          Rank(items[k].tmdb_id) > AVAILABILITY_LOOKUPS_PER_REQUEST


(* C6: the rate-limit delay follows uncached availability calls only: a    *)
(* sleep is immediately preceded by a call of the availability provider    *)
(* (a lookup answered from the cache incurs no delay), and a provider call *)
(* is followed by another call of the same lookup or by the delay.         *)
C6_DelayOnlyAfterUncachedCall ==
    /\ \A j \in CallsOf({"sleep"}) :
          j > 1 /\ calls[j - 1].api \in WatchmodeApis
    /\ \A j \in CallsOf(WatchmodeApis) :
          (j < Len(calls)) => calls[j + 1].api \in WatchmodeApis \cup {"sleep"}

(* C7: both enrichment lookups fail open: whatever the trailer call, the   *)
(* availability title search or the availability sources call answers      *)
(* (network error, non-success status, malformed body), no exception       *)
(* leaves recommend_ai from the item loop.                                 *)
C7_EnrichmentFailsOpen ==
    ~(outcome.status = "raised" /\ outcome.at = "loop")

(* C8: a missing catalog or availability credential is fatal for the       *)
(* request: a request in which a provider wrapper found its credential     *)
(* missing does not return a result.                                       *)
C8_MissingCredentialIsFatal ==
    (\E j \in 1..Len(calls) : calls[j].res = "nokey")
    => outcome.status # "returned"

(* C9: the oracle is best-effort: whatever it answers, the oracle step     *)
(* raises nothing, and it is called at most once per request.              *)
C9_OracleIsBestEffort ==
    /\ ~(outcome.status = "raised" /\ outcome.at = "intent")
    /\ Cardinality(CallsOf({"gemini"})) <= 1

C11_Memoization ==
    \A k \in DOMAIN lookups : lookups[k] <= 1

\* C11 witness: the second request of the process has returned an item with
\* a trailer and an availability text for which it made no external call:
\* each of its three keys was called exactly once, by the earlier request.
C11_Witness ==
    /\ Finished
    /\ requests > 1
    /\ \E k \in 1..Len(items) :
          LET it == items[k]
              tcall == Call("tmdb_get_trailer_url", it.tmdb_id, "", "ok")
              scall == Call("watchmode_search", 0, it.title, "ok")
              ccall == Call("watchmode_sources", 0, it.title, "ok")
          IN  /\ it.trailer_url # None
              /\ it.available_on # << >>
              /\ \A j \in 1..Len(calls) :
                    ~(\/ (calls[j].api = "tmdb_get_trailer_url"
                             /\ calls[j].id = it.tmdb_id)
                      \/ (calls[j].api \in WatchmodeApis
                             /\ calls[j].title = it.title))
              /\ \A c \in {tcall, scall, ccall} :
                    /\ LookupKey(c, media_type) \in DOMAIN lookups
                    /\ lookups[LookupKey(c, media_type)] = 1

(* C12: concurrent requests racing on one cache key never leave incorrect  *)
(* cached data: once a thread's own external lookup of a key has resolved  *)
(* and the thread has returned, the cache holds for that key the value the *)
(* lookup resolves to, whatever the other thread does; no negative marker  *)
(* overwrites it.                                                          *)
C12_RaceKeepsResolvedValue ==
    \A t \in Threads :
       LET th == threads[t]
           tk == <<th.id, media_type>>
           sk == <<th.title, DEFAULT_REGION>>
       IN  (th.pc = "done" /\ th.o = "ok") =>
              IF th.fn = "trailer"
              THEN /\ tk \in DOMAIN trailerCache
                   /\ trailerCache[tk] = WorldTrailer(th.id, media_type)
              ELSE /\ sk \in DOMAIN sourcesCache
                   /\ sourcesCache[sk] =
                         ListBody(WorldSources(WorldWatchmodeId(th.title)))

(* C13: whatever the caller's override, the oracle's hint and the lexical  *)
(* result are, the content type the router works with is "movie" or        *)
(* "series"; no other string reaches the routes.                           *)
C13_ContentTypeIsConcrete ==
    (pc = "person") => intent.ct \in {"movie", "series"}

(* C14: the content type is the first of override, oracle hint and lexical *)
(* result that is set and not "unknown", and "movie" only when none is: an *)
(* oracle hint of "unknown" with a lexical result "series" gives "series". *)
C14_ContentTypePrecedence ==
    (pc = "person") =>
       LET Known(x) == x \notin {"", "unknown"}
           o == req.content_type
           gc == intent.g.content_type
           hc == parse_intent(req.user_text).content_type
           first == IF Known(o) THEN o
                    ELSE IF Known(gc) THEN gc
                    ELSE IF Known(hc) THEN hc ELSE "movie"
       IN  intent.ct = _normalize_content_type(first)

(* C15: in the merged intent handed to retrieval, year_from <= year_to     *)
(* whenever both are set, for every lexical result and every oracle hint.  *)
C15_YearRangeNotInverted ==
    (pc = "person" /\ intent.year_from # 0 /\ intent.year_to # 0)
    => intent.year_from <= intent.year_to

(* C16: the similarity bonus goes only to items whose candidates came from *)
(* the title route's similarity expansion: in a request whose candidates   *)
(* were not answered by the similar call, every item's score is the score  *)
(* with a bonus of 0, even when the intent has a title query.              *)
C16_BonusOnlyForSimilar ==
    \A k \in 1..Len(items) :
       LET c == CHOOSE x \in Range(candidates) : x.id = items[k].tmdb_id
           similar == \E j \in CallsOf({"tmdb_similar"}) : calls[j].res = "ok"
       IN  items[k].score = _score_100(c, intent.genre_ids, intent.lang,
                                       IF similar THEN 6 ELSE 0)

(* C18: the items of a response are in descending order of score, and      *)
(* items of equal score keep the order their candidates had in the         *)
(* deduplicated candidate sequence: the final sort only reorders, and      *)
(* stably.                                                                 *)
C18_StableScoreOrder ==
    [][ (pc = "sort") =>
          /\ Len(items') = Len(items)
          /\ Range(items') = Range(items)
          /\ \A a \in 1..Len(items') : \A b \in 1..Len(items') :
                (a < b) =>
                   /\ items'[a].score >= items'[b].score
                   /\ (items'[a].score = items'[b].score)
                         => Rank(items'[a].tmdb_id) < Rank(items'[b].tmdb_id) ]_vars

\* C18 witness: a returned response in which two items tie on the score and
\* the sort moved an item ahead of one that came earlier among the
\* candidates.
C18_Witness ==
    /\ Finished
    /\ \E a \in 1..Len(items) : \E b \in 1..Len(items) :
          a < b /\ items[a].score = items[b].score
    /\ \E a \in 1..Len(items) : \E b \in 1..Len(items) :
          a < b /\ Rank(items[a].tmdb_id) > Rank(items[b].tmdb_id)

(* C17: _score_100 is bounded.  For every candidate with a rating in 0..10 *)
(* and a popularity >= 0, every target genre set, target language and      *)
(* bonus of 0 or 0.06 the score is an integer in 0..100, and a candidate   *)
(* with rating 10, all target genres, popularity >= 200, the target        *)
(* language and the bonus scores exactly 100.                              *)
C17_ScoreIsBounded ==
    \A k \in 1..Len(items) :
       LET c == CHOOSE x \in Range(candidates) : x.id = items[k].tmdb_id
           target == Range(intent.genre_ids)
       IN  /\ items[k].score \in 0..100
           /\ (/\ c.vote_average = 10
               /\ target # {} /\ target \subseteq c.genre_ids
               /\ c.popularity >= 200
               /\ intent.lang # "" /\ c.original_language = intent.lang
               /\ intent.title_query # << >>)
              => items[k].score = 100

\* C17 witness: a response holds the item of a candidate with rating 10, both
\* target genres, a popularity above 200 and the target language, scored
\* with the bonus at exactly 100.
C17_Witness ==
    /\ Finished
    /\ intent.title_query # << >>
    /\ intent.lang = "en"
    /\ intent.genre_ids = <<28, 35>>
    /\ \E k \in 1..Len(items) :
          /\ items[k].rating = 10
          /\ items[k].popularity = 1000
          /\ items[k].language = "en"
          /\ items[k].score = 100

(* C19: _dedupe_by_id keeps, of every identifier present, exactly the      *)
(* first occurrence, in input order, and drops the candidates without an   *)
(* identifier: the output is as long as there are distinct identifiers,    *)
(* each kept candidate is the first of the input with its identifier, and  *)
(* the kept candidates are in the order of these first occurrences.        *)
C19_DedupeKeepsFirst ==
    [][ (pc = "dedupe") =>
          LET in == candidates
              out == candidates'
              ids == {in[i].id : i \in 1..Len(in)} \ {0}
              First(id) == FirstIndex({i \in 1..Len(in) : in[i].id = id})
          IN  /\ Len(out) = Cardinality(ids)
              /\ {out[k].id : k \in 1..Len(out)} = ids
              /\ \A k \in 1..Len(out) : out[k] = in[First(out[k].id)]
              /\ \A a \in 1..Len(out) : \A b \in 1..Len(out) :
                    (a < b) => First(out[a].id) < First(out[b].id) ]_vars

\* C19 witness: _dedupe_by_id has returned for a list that held two
\* different candidates of one identifier and a candidate without one: the
\* earlier of the two is kept, the later and the one without are gone.
C19_Witness ==
    /\ pc = "loop"
    /\ cursor = 1
    /\ \E i \in 1..Len(raw) : \E j \in 1..Len(raw) :
          /\ i < j
          /\ raw[i].id = raw[j].id
          /\ raw[i] # raw[j]
          /\ raw[i] \in Range(candidates)
          /\ raw[j] \notin Range(candidates)
    /\ \E i \in 1..Len(raw) : raw[i].id = 0
    /\ \A k \in 1..Len(candidates) : candidates[k].id # 0

(* C20: year extraction.  With no oracle hint the merged bounds are the    *)
(* lexical ones, and these follow four patterns in fixed precedence:       *)
(* "between Y1 and/to Y2" gives (min, max); else "after Y" gives (Y + 1,   *)
(* unset) and "since Y" gives (Y, unset); else "before Y" gives (unset,    *)
(* Y - 1) and "until Y" gives (unset, Y); else exactly one bare year gives *)
(* (Y, Y), and any other number of years gives (unset, unset).  Whenever   *)
(* both bounds are set, year_from <= year_to.                              *)
C20_YearExtraction ==
    (pc = "person" /\ ~intent.g.present) =>
       LET t == req.user_text
           yf == intent.year_from
           yt == intent.year_to
           Y(i) == YearValue(t[i])
           B == {i \in 1..(Len(t) - 3) :
                   /\ t[i] = "between" /\ IsYear(t[i + 1])
                   /\ t[i + 2] \in {"and", "to"} /\ IsYear(t[i + 3])}
           A == {i \in 1..(Len(t) - 1) :
                   t[i] \in {"after", "since"} /\ IsYear(t[i + 1])}
           U == {i \in 1..(Len(t) - 1) :
                   t[i] \in {"before", "until"} /\ IsYear(t[i + 1])}
           bare == {i \in 1..Len(t) : IsYear(t[i])}
       IN  /\ (B # {}) =>
                 \E i \in B : /\ yf = Min(Y(i + 1), Y(i + 3))
                               /\ yt = Max(Y(i + 1), Y(i + 3))
           /\ (B = {} /\ A # {}) =>
                 /\ yt = 0
                 /\ \E i \in A : yf = IF t[i] = "after" THEN Y(i + 1) + 1
                                       ELSE Y(i + 1)
           /\ (B = {} /\ A = {} /\ U # {}) =>
                 /\ yf = 0
                 /\ \E i \in U : yt = IF t[i] = "before" THEN Y(i + 1) - 1
                                       ELSE Y(i + 1)
           /\ (B = {} /\ A = {} /\ U = {} /\ Cardinality(bare) = 1) =>
                 \E i \in bare : yf = Y(i) /\ yt = Y(i)
           /\ (B = {} /\ A = {} /\ U = {} /\ Cardinality(bare) # 1) =>
                 yf = 0 /\ yt = 0
           /\ (yf # 0 /\ yt # 0) => yf <= yt

\* C20 witness: a text with both an "after" and a "before" phrase has been
\* merged without a hint: the "after" phrase decided, and the upper bound is
\* unset.
C20_Witness ==
    /\ pc = "person"
    /\ ~intent.g.present
    /\ req.user_text = <<"after", "2015", "before", "2020">>
    /\ intent.year_from = 2016
    /\ intent.year_to = 0


\* Where the text t names the genre id: the words that are one of its names
\* (or open the two-word name "sci fi", or contain "thrill" for 53).
NamedAt(t, id) ==
    {i \in 1..Len(t) :
        \/ GenreId(t[i]) = id
        \/ (id = 878 /\ i < Len(t) /\ t[i] = "sci" /\ t[i + 1] = "fi")
        \/ (id = 53 /\ "thrill" \in SubstringsOf(t[i]))}

(* C21: with no usable genre word from the oracle, the merged genre ids -   *)
(* the ids parse_intent extracted from the text - hold every id once, hold  *)
(* only ids whose name occurs in the text, and list them in the order in    *)
(* which their names first occur in the text.                               *)
C21_GenresInFirstSeenOrder ==
    (pc = "person" /\ HintGenres(intent.g.genres) = << >>) =>
        LET gs == intent.genre_ids
            t == req.user_text
        IN  /\ \A a, b \in 1..Len(gs) : a # b => gs[a] # gs[b]
            /\ \A a \in 1..Len(gs) : NamedAt(t, gs[a]) # {}
            /\ \A a, b \in 1..Len(gs) :
                   a < b => FirstIndex(NamedAt(t, gs[a]))
                                < FirstIndex(NamedAt(t, gs[b]))

(* C22: recommend_ai accepts the limit form of the call, and the endpoint's *)
(* limit-based call runs the paginated call with page = 1 and page_size =   *)
(* limit: no such call ends in an exception before recommend_ai has         *)
(* started, neither when the endpoint module is loaded nor when the         *)
(* arguments are bound.                                                     *)
C22_LimitCallIsServed ==
    ~(outcome.status = "raised" /\ outcome.at \in {"import", "call"})

(* C23: the merged genre ids come from one source only.  If at least one    *)
(* genre word of the oracle is a catalog name, they are exactly the ids of  *)
(* those words, each once, in the order of their first occurrence among the *)
(* words (so no id that only the text names is among them); otherwise they  *)
(* are exactly the ids the lexical extractor found in the text.             *)
C23_GenreMergeIsFallback ==
    pc = "person" =>
        LET ws == intent.g.genres
            usable == {i \in 1..Len(ws) : GenreId(ws[i]) # 0}
            at(id) == FirstIndex({i \in usable : GenreId(ws[i]) = id})
            gs == intent.genre_ids
        IN  IF usable # {}
            THEN /\ Range(gs) = {GenreId(ws[i]) : i \in usable}
                 /\ \A a, b \in 1..Len(gs) : a < b => at(gs[a]) < at(gs[b])
            ELSE gs = parse_intent(req.user_text).genres

\* the oracle names crime and an unknown genre, the text names comedy: the
\* merged ids are crime alone
C23_Witness ==
    /\ pc = "person"
    /\ intent.g.genres = <<"crime", "noir">>
    /\ 35 \in Range(parse_intent(req.user_text).genres)
    /\ intent.genre_ids = <<80>>

(* C24: whenever page_size is at least 1, the list of items being built for *)
(* the response never holds more than page_size items.                      *)
C24_AtMostPageSize ==
    req.page_size >= 1 => Len(items) <= req.page_size

\* C24 witness: a response that is full, from a candidate list with more
\* usable candidates than page_size
C24_Witness ==
    /\ Finished
    /\ Len(items) = req.page_size
    /\ Len(ValidCandidates) > req.page_size

(* C25: truncation comes before ranking.  For page_size >= 1 the returned   *)
(* items are exactly the first page_size candidates, in de-duplicated       *)
(* retrieval order, that have an identifier and a title - one item each -   *)
(* listed by descending score; a later candidate is never returned in place *)
(* of an earlier usable one.                                                *)
C25_TruncateThenRank ==
    (Finished /\ req.page_size >= 1) =>
        LET first == Take(ValidCandidates, req.page_size)
        IN  /\ Len(items) = Len(first)
            /\ \A k \in 1..Len(first) :
                   \E j \in 1..Len(items) :
                       /\ items[j].tmdb_id = first[k].id
                       /\ items[j].title = TitleOf(first[k], media_type)
            /\ \A a, b \in 1..Len(items) :
                   a < b => items[a].score >= items[b].score

\* C25 witness: a usable candidate past the first page_size was left out
\* although it scores higher than every returned item
C25_Witness ==
    /\ Finished
    /\ req.page_size >= 1
    /\ items # << >>
    /\ \E j \in (req.page_size + 1)..Len(ValidCandidates) :
          /\ \A k \in 1..Len(items) :
                /\ items[k].tmdb_id # ValidCandidates[j].id
                /\ items[k].score <
                      _score_100(ValidCandidates[j], intent.genre_ids,
                                 intent.lang,
                                 SimilarBonus(intent.title_query))

\* the calls of tmdb_similar of this request that were answered
SimilarAnswered ==
    {j \in 1..Len(calls) :
        calls[j].api = "tmdb_similar" /\ calls[j].res = "ok"}

====
